---- MODULE Spec2Model ----
(***************************************************************************)
(* A model of mini_numpy: the Matrix class (mini_numpy/_matrices.py) and   *)
(* the Vector class (mini_numpy/_vectors.py).                              *)
(*                                                                         *)
(* A Python list is an object with an identity: a row of a Matrix is       *)
(* modelled as a record [ref, items], ref being the identity of the list   *)
(* object and items its contents.  Two rows with the same ref are the same *)
(* list object.  A Matrix object is a record [id, coordinates, h, w], id   *)
(* being the identity of the object (and of its outer list, which          *)
(* __init__ creates with list(m), line 62).  Two variables that hold       *)
(* records with the same id are bound to the same Matrix object, and an    *)
(* in-place row replacement through one is seen through the other.         *)
(*                                                                         *)
(* The program is a caller that holds two matrices a and b, the result r   *)
(* of the last arithmetic call that returned, and issues up to MaxCalls    *)
(* calls of the Matrix interface.  A call that raises leaves r bound to    *)
(* what it was (r = a + b does not rebind r when a + b raises).            *)
(***************************************************************************)
EXTENDS Integers, Sequences, FiniteSets, TLC

VARIABLES a, b, r, last, err, ncalls, v1, v2, ret

vars == <<a, b, r, last, err, ncalls, v1, v2, ret>>

(***************************************************************************)
(* Bounds of the model.                                                    *)
(***************************************************************************)
MaxDim == 2      \* heights and widths of the matrices the caller constructs
MaxVal == 1      \* elements are drawn from 0..MaxVal
MaxCalls == 2    \* calls the caller issues after construction
MaxLen == 2      \* lengths of the vectors the caller constructs

Vals == 0 .. MaxVal
Dims == 1 .. MaxDim
Scalars == {-1, 2}
VScalars == {0, 2}

(***************************************************************************)
(* Python built-ins used by the source.                                    *)
(***************************************************************************)
Min(x, y) == IF x <= y THEN x ELSE y

\* sum(seq) over integers, starting from 0
RECURSIVE Sum(_)
Sum(s) == IF s = <<>> THEN 0 ELSE Head(s) + Sum(Tail(s))

\* zip(s, t): pairs up to the shorter operand
Zip(s, t) == [i \in 1 .. Min(Len(s), Len(t)) |-> <<s[i], t[i]>>]

\* the outcome of a call: an exception name, or "none" and the value returned
Raise(e) == [err |-> e, val |-> <<>>]
Return(m) == [err |-> "none", val |-> <<m>>]

(***************************************************************************)
(* List objects: allocation of fresh rows.                                 *)
(***************************************************************************)
Refs(m) == {m.coordinates[i].ref : i \in 1 .. Len(m.coordinates)}

ObjIds(m) == {m.id} \cup Refs(m)

\* identities of the objects reachable from the caller's variables
Used == ObjIds(a) \cup ObjIds(b) \cup (IF r = <<>> THEN {} ELSE ObjIds(r[1]))

\* the n-th identity not in use
RECURSIVE NthFree(_, _, _)
NthFree(used, n, k) ==
    IF k \in used THEN NthFree(used, n, k + 1)
    ELSE IF n = 1 THEN k ELSE NthFree(used, n - 1, k + 1)

\* list(... for ...) building the rows of a result: every row is a new list
NewRows(itemss) ==
    [i \in 1 .. Len(itemss) |-> [ref |-> NthFree(Used, i, 1), items |-> itemss[i]]]

Items(m) == [i \in 1 .. Len(m.coordinates) |-> m.coordinates[i].items]

(***************************************************************************)
(* class Matrix                                                            *)
(***************************************************************************)
\* __check_matrix__: TRUE when it raises ValueError
CheckFails(coordinates, w) ==
    \E i \in 1 .. Len(coordinates) : Len(coordinates[i].items) # w

\* __init__, the new object taking the first identity not in used
New(m, used) ==
    IF Len(m) = 0 THEN Raise("IndexError")
    ELSE LET w == Len(m[1].items)
             id == NthFree(used \cup {m[i].ref : i \in 1 .. Len(m)}, 1, 1)
         IN IF CheckFails(m, w) THEN Raise("ValueError")
            ELSE Return([id |-> id, coordinates |-> m, h |-> Len(m), w |-> w])

MatrixInit(m) == New(m, Used)

\* shape property: recomputed from the rows
shape(self) == <<Len(self.coordinates), Len(self.coordinates[1].items)>>

\* __neg__
neg(self) ==
    MatrixInit(NewRows([i \in 1 .. Len(self.coordinates) |->
        [j \in 1 .. Len(self.coordinates[i].items) |-> -self.coordinates[i].items[j]]]))

\* __add__
add(self, other) ==
    IF shape(other) = shape(self)
    THEN MatrixInit(NewRows([i \in 1 .. Min(Len(other.coordinates), Len(self.coordinates)) |->
            LET z == Zip(other.coordinates[i].items, self.coordinates[i].items)
            IN [j \in 1 .. Len(z) |-> z[j][1] + z[j][2]]]))
    ELSE Raise("ValueError")

\* __sub__ adding other in place of its negative
subNoNeg(self, other) ==
    IF shape(other) = shape(self) THEN add(self, other) ELSE Raise("ValueError")

\* __sub__
sub(self, other) ==
    IF shape(other) = shape(self)
    THEN LET n == neg(other)
         IN IF n.err # "none" THEN Raise(n.err) ELSE add(self, n.val[1])
    ELSE Raise("ValueError")

\* transpose: zip(*rows) stops at the shortest row
MinLen(coordinates) ==
    CHOOSE n \in 0 .. MaxDim + 1 :
        /\ \A i \in 1 .. Len(coordinates) : n <= Len(coordinates[i].items)
        /\ \E i \in 1 .. Len(coordinates) : n = Len(coordinates[i].items)

\* transpose without zip(*...): the rows are copied as they are
transposeNoZip(self) ==
    MatrixInit(NewRows(Items(self)))

transpose(self) ==
    MatrixInit(NewRows([j \in 1 .. MinLen(self.coordinates) |->
        [i \in 1 .. Len(self.coordinates) |-> self.coordinates[i].items[j]]]))

\* get_col: TRUE when x[col] raises IndexError for some row (col is 0-based)
GetColFails(self, col) ==
    \E i \in 1 .. Len(self.coordinates) : col >= Len(self.coordinates[i].items)

get_col(self, col) ==
    [i \in 1 .. Len(self.coordinates) |-> self.coordinates[i].items[col + 1]]

\* the loops of __mul__ (lines 319-323), one assignment result[i][j] = ... per
\* step k = i * other.w + j; result is a list of item lists
RECURSIVE MulLoop(_, _, _, _)
MulLoop(self, other, result, k) ==
    IF k = Len(self.coordinates) * other.w
    THEN [err |-> "none", val |-> result]
    ELSE LET i == k \div other.w
             j == k % other.w
         IN IF \/ GetColFails(other, j)
               \/ i >= Len(result)
               \/ j >= Len(result[i + 1])
            THEN [err |-> "IndexError", val |-> <<>>]
            ELSE LET z == Zip(self.coordinates[i + 1].items, get_col(other, j))
                     x == Sum([t \in 1 .. Len(z) |-> z[t][1] * z[t][2]])
                 IN MulLoop(self, other,
                            [result EXCEPT ![i + 1] = [@ EXCEPT ![j + 1] = x]],
                            k + 1)

\* result = [[0 for i in range(self.h)] for j in range(other.w)]  (line 318)
MulResultInit(self, other) == [j \in 1 .. other.w |-> [i \in 1 .. self.h |-> 0]]

\* __mul__ comparing the two heights in place of self.w and other.h
mulHeights(self, other) ==
    IF self.h = other.h
    THEN LET l == MulLoop(self, other, MulResultInit(self, other), 0)
         IN IF l.err # "none" THEN Raise(l.err) ELSE MatrixInit(NewRows(l.val))
    ELSE Raise("ValueError")

\* __mul__ with a Matrix operand
mul(self, other) ==
    IF self.w = other.h
    THEN LET l == MulLoop(self, other, MulResultInit(self, other), 0)
         IN IF l.err # "none" THEN Raise(l.err) ELSE MatrixInit(NewRows(l.val))
    ELSE Raise("ValueError")

\* __mul__ with an int operand returning the operand's own row lists
smulSharedRows(self, other) ==
    MatrixInit(self.coordinates)

\* __mul__ with an int operand
smul(self, other) ==
    MatrixInit(NewRows([i \in 1 .. Len(self.coordinates) |->
        [j \in 1 .. Len(self.coordinates[i].items) |-> self.coordinates[i].items[j] * other]]))

\* __setitem__ validating the new row before it is stored
setitemValidateFirst(self, idx, value) ==
    IF idx >= Len(self.coordinates) THEN [err |-> "IndexError", val |-> self]
    ELSE IF Len(value.items) # self.w THEN [err |-> "ValueError", val |-> self]
    ELSE [err |-> "none", val |-> [self EXCEPT !.coordinates[idx + 1] = value]]

\* __setitem__: the matrix after the call and whether it raised (idx is 0-based)
setitem(self, idx, value) ==
    IF idx >= Len(self.coordinates) THEN [err |-> "IndexError", val |-> self]
    ELSE LET m == [self EXCEPT !.coordinates[idx + 1] = value]
         IN [err |-> IF CheckFails(m.coordinates, m.w) THEN "ValueError" ELSE "none",
             val |-> m]

(***************************************************************************)
(* class Vector                                                            *)
(*                                                                         *)
(* The coordinates the caller passes are ints.  A number returned by the   *)
(* Vector interface is a pair <<n, d>>, the fraction n/d in lowest terms   *)
(* with d > 0: Python's true division of ints is modelled by the exact     *)
(* quotient (the rounding of the float result is not modelled).            *)
(***************************************************************************)
Abs(x) == IF x < 0 THEN -x ELSE x

RECURSIVE Gcd(_, _)
Gcd(x, y) == IF y = 0 THEN x ELSE Gcd(y, x % y)

Frac(n, d) ==
    LET g == Gcd(Abs(n), Abs(d))
        sgn == IF d < 0 THEN -1 ELSE 1
    IN <<sgn * (n \div g), sgn * (d \div g)>>

Num(n) == <<n, 1>>

QAdd(p, q) == Frac(p[1] * q[2] + q[1] * p[2], p[2] * q[2])

\* sum(...) of numbers, starting from the int 0
RECURSIVE QSum(_)
QSum(s) == IF s = <<>> THEN Num(0) ELSE QAdd(Head(s), QSum(Tail(s)))

NoRet == [kind |-> "none", vec |-> <<>>, num |-> Num(0)]
RetVector(t) == [kind |-> "Vector", vec |-> t, num |-> Num(0)]
RetNumber(q) == [kind |-> "number", vec |-> <<>>, num |-> q]

VRaise(e) == [err |-> e, val |-> NoRet]
VReturn(v) == [err |-> "none", val |-> v]

\* Vector.__add__
vadd(self, other) ==
    LET z == Zip(other, self)
    IN VReturn(RetVector([i \in 1 .. Len(z) |-> Num(z[i][1] + z[i][2])]))

\* Vector.__sub__ pairing the operands in the order of __add__
vsubSwapped(self, other) ==
    LET z == Zip(other, self)
    IN VReturn(RetVector([i \in 1 .. Len(z) |-> Num(z[i][1] - z[i][2])]))

\* Vector.__sub__
vsub(self, other) ==
    LET z == Zip(self, other)
    IN VReturn(RetVector([i \in 1 .. Len(z) |-> Num(z[i][1] - z[i][2])]))

\* Vector.__mul__ without the length check
vmulNoCheck(self, other) ==
    LET z == Zip(other, self)
    IN VReturn(RetNumber(Num(Sum([i \in 1 .. Len(z) |-> z[i][1] * z[i][2]]))))

\* Vector.__mul__ with a Vector operand
vmul(self, other) ==
    IF Len(other) = Len(self)
    THEN LET z == Zip(other, self)
         IN VReturn(RetNumber(Num(Sum([i \in 1 .. Len(z) |-> z[i][1] * z[i][2]]))))
    ELSE VRaise("ValueError")

\* Vector.__mul__ with an int operand
vsmul(self, other) ==
    VReturn(RetVector([i \in 1 .. Len(self) |-> Num(self[i] * other)]))

\* Vector.__truediv__ with a Vector operand
vdiv(self, other) ==
    IF Len(other) = Len(self)
    THEN LET z == Zip(self, other)
         IN IF \E i \in 1 .. Len(z) : z[i][2] = 0 THEN VRaise("ZeroDivisionError")
            ELSE VReturn(RetNumber(QSum([i \in 1 .. Len(z) |-> Frac(z[i][1], z[i][2])])))
    ELSE VRaise("ValueError")

\* Vector.__truediv__ with an int operand
vsdiv(self, other) ==
    IF other = 0 /\ Len(self) > 0 THEN VRaise("ZeroDivisionError")
    ELSE VReturn(RetVector([i \in 1 .. Len(self) |-> Frac(self[i], other)]))

(***************************************************************************)
(* The caller of the Matrix interface.                                     *)
(***************************************************************************)
\* rectangular inputs of the constructor, rows numbered from ref0 + 1
Inputs(ref0) ==
    UNION {UNION {{[i \in 1 .. h |-> [ref |-> ref0 + i, items |-> f[i]]] :
                     f \in [1 .. h -> [1 .. w -> Vals]]} : w \in Dims} : h \in Dims}

\* rows the caller passes to __setitem__
RowValues == UNION {[1 .. n -> Vals] : n \in Dims}

NoCall == [op |-> "init", x |-> "-", y |-> "-", of |-> <<"-", "-", "-">>]

Present(s) == s \in {"a", "b"} \/ (s = "r" /\ r # <<>>)
M(s) == IF s = "a" THEN a ELSE IF s = "b" THEN b ELSE r[1]

\* the call that made r, when the last call returned r
Origin == IF err = "none" /\ last.op \in {"neg", "add", "sub", "transpose", "mul", "smul"}
          THEN <<last.op, last.x, last.y>> ELSE <<"-", "-", "-">>

Call(op, x, y) == [op |-> op, x |-> x, y |-> y,
                   of |-> IF x = "r" THEN Origin ELSE <<"-", "-", "-">>]

\* r = <operator call>: r is rebound only when the call returns
Operator(op, x, y, res) ==
    /\ ncalls < MaxCalls
    /\ ncalls' = ncalls + 1
    /\ last' = Call(op, x, y)
    /\ err' = res.err
    /\ r' = IF res.err = "none" THEN res.val ELSE r
    /\ UNCHANGED <<a, b, v1, v2, ret>>

Init ==
    /\ a \in {New(m, {}).val[1] : m \in Inputs(0)}
    /\ b \in {New(m, 1 .. MaxDim + 1).val[1] : m \in Inputs(MaxDim + 1)}
    /\ r = <<>>
    /\ last = NoCall
    /\ err = "none"
    /\ ncalls = 0
    /\ v1 = <<>>
    /\ v2 = <<>>
    /\ ret = NoRet

Neg == \E x \in {"a", "b", "r"} :
    /\ Present(x)
    /\ Operator("neg", x, "-", neg(M(x)))

Add == \E x \in {"a", "b", "r"}, y \in {"a", "b"} :
    /\ Present(x)
    /\ Operator("add", x, y, add(M(x), M(y)))

Sub == \E x \in {"a", "b", "r"}, y \in {"a", "b"} :
    /\ Present(x)
    /\ Operator("sub", x, y, sub(M(x), M(y)))

Transpose == \E x \in {"a", "b", "r"} :
    /\ Present(x)
    /\ Operator("transpose", x, "-", transpose(M(x)))

Mul == \E x \in {"a", "b", "r"}, y \in {"a", "b"} :
    /\ Present(x)
    /\ Operator("mul", x, y, mul(M(x), M(y)))

SMul == \E x \in {"a", "b", "r"}, k \in Scalars :
    /\ Present(x)
    /\ Operator("smul", x, "-", smul(M(x), k))

\* m * "s": neither a Matrix nor a number (lines 333-335)
MulTypeError == \E x \in {"a", "b", "r"} :
    /\ Present(x)
    /\ Operator("mulother", x, "-", Raise("TypeError"))

\* m[idx] = value, value a new list
SetItemAt(x, idx, items) ==
    /\ Present(x)
    /\ ncalls < MaxCalls
    /\ LET res == setitem(M(x), idx, [ref |-> NthFree(Used, 1, 1), items |-> items])
           id == M(x).id
       IN /\ a' = IF a.id = id THEN res.val ELSE a
          /\ b' = IF b.id = id THEN res.val ELSE b
          /\ r' = IF r # <<>> /\ r[1].id = id THEN <<res.val>> ELSE r
          /\ err' = res.err
    /\ last' = [op |-> "set", x |-> x, y |-> "-", of |-> <<"-", "-", "-">>]
    /\ ncalls' = ncalls + 1
    /\ UNCHANGED <<v1, v2, ret>>

SetItem == \E x \in {"a", "b", "r"}, idx \in 0 .. MaxDim - 1, items \in RowValues :
    SetItemAt(x, idx, items)

Next == Neg \/ Add \/ Sub \/ Transpose \/ Mul \/ SMul \/ MulTypeError \/ SetItem

Spec == Init /\ [][Next]_vars

(***************************************************************************)
(* Properties of the Matrix interface (checked under Spec).                *)
(***************************************************************************)
ArithOps == {"neg", "add", "sub", "transpose", "mul", "smul"}
NoOrigin == <<"-", "-", "-">>

\* a matrix that satisfies the data model: h rows, every one of length w >= 1
Valid(m) ==
    /\ m.h = Len(m.coordinates)
    /\ m.w >= 1
    /\ \A i \in 1 .. Len(m.coordinates) : Len(m.coordinates[i].items) = m.w

\* the standard matrix product of two lists of rows, A of shape (h, k), B of (k, n)
Product(A, B) ==
    [i \in 1 .. Len(A) |-> [j \in 1 .. Len(B[1]) |->
        Sum([t \in 1 .. Len(B) |-> A[i][t] * B[t][j]])]]

\* C1: for valid a of shape (h,k) and b of shape (k,n), a.multiply(b) returns the
\* standard product, a Matrix of shape (a.height, b.width), also when h # n.
C1_MultiplyIsMatrixProduct ==
    \A x \in {"a", "b"}, y \in {"a", "b"} :
        (/\ last.op = "mul" /\ last.x = x /\ last.y = y
         /\ Valid(M(x)) /\ Valid(M(y))
         /\ M(x).w = M(y).h)
        => (/\ err = "none"
            /\ r # <<>>
            /\ shape(r[1]) = <<M(x).h, M(y).w>>
            /\ Items(r[1]) = Product(Items(M(x)), Items(M(y))))

\* C2: in every reachable state, after any sequence of row replacements (returning
\* or raising) and operators, all rows of every Matrix have the same length.
C2_RowsSameLength ==
    \A s \in {"a", "b", "r"} :
        Present(s) =>
            \A i \in 1 .. Len(M(s).coordinates), j \in 1 .. Len(M(s).coordinates) :
                Len(M(s).coordinates[i].items) = Len(M(s).coordinates[j].items)

\* C3: a row replacement at a valid index with a row whose length differs from the
\* matrix's width (self.w) raises ValueError, at index 0 and in single-row matrices
\* too, and after it the row at that index is the new row.
C3_SetWrongLengthRaisesAndStores ==
    [][\A x \in {"a", "b", "r"}, idx \in 0 .. MaxDim - 1, items \in RowValues :
        (/\ last'.op = "set" /\ last'.x = x
         /\ Present(x)
         /\ idx < M(x).h
         /\ Len(items) # M(x).w
         /\ SetItemAt(x, idx, items))
        => (/\ err' = "ValueError"
            /\ (M(x).coordinates[idx + 1].items)' = items
            /\ (M(x).coordinates[idx + 1].ref)' \notin Used)]_vars

C3_Witness ==
    /\ last.op = "set" /\ last.x = "a" /\ err = "ValueError"
    /\ a.h = 1
    /\ Len(a.coordinates[1].items) # a.w

\* C4: on valid matrices, add and subtract raise ValueError when the shapes differ
\* and multiply raises ValueError when a.width # b.height; the call returns no
\* Matrix (the caller's result is not rebound) and no operand is changed.
C4_ShapeMismatchRaises ==
    [][\A x \in {"a", "b", "r"}, y \in {"a", "b"} :
        (/\ Present(x) /\ Valid(M(x)) /\ Valid(M(y))
         /\ ncalls' = ncalls + 1 /\ last'.x = x /\ last'.y = y
         /\ \/ last'.op \in {"add", "sub"} /\ shape(M(x)) # shape(M(y))
            \/ last'.op = "mul" /\ M(x).w # M(y).h)
        => (/\ err' = "ValueError"
            /\ r' = r /\ a' = a /\ b' = b)]_vars

C4_Witness ==
    /\ last.op = "sub" /\ last.x = "a" /\ last.y = "b" /\ err = "ValueError"
    /\ Valid(a) /\ Valid(b)
    /\ shape(a) # shape(b)
    /\ r = <<>>

\* C5: for a valid matrix m, m.transpose() has shape (width, height) and
\* m.transpose().transpose() equals m element-wise.
C5_TransposeInvolution ==
    \A x \in {"a", "b"} :
        Valid(M(x)) =>
            /\ (last.op = "transpose" /\ last.x = x)
                => (/\ err = "none"
                    /\ r # <<>>
                    /\ Valid(r[1])
                    /\ <<r[1].h, r[1].w>> = <<M(x).w, M(x).h>>
                    /\ shape(r[1]) = <<M(x).w, M(x).h>>)
            /\ (last.op = "transpose" /\ last.x = "r" /\ last.of = <<"transpose", x, "-">>)
                => (/\ err = "none"
                    /\ Items(r[1]) = Items(M(x)))

C5_Witness ==
    /\ last.op = "transpose" /\ last.x = "r" /\ last.of = <<"transpose", "a", "-">>
    /\ err = "none"
    /\ a.h # a.w
    /\ \E i \in 1 .. a.h, j \in 1 .. a.w : a.coordinates[i].items[j] # 0

\* C6: for valid matrices a and b of equal shape with integer elements,
\* a.add(b).subtract(b) returns a Matrix equal to a element-wise.
C6_AddThenSubtract ==
    \A x \in {"a", "b"}, y \in {"a", "b"} :
        (Valid(M(x)) /\ Valid(M(y)) /\ shape(M(x)) = shape(M(y))) =>
            /\ (last.op = "add" /\ last.x = x /\ last.y = y) => err = "none"
            /\ (last.op = "sub" /\ last.x = "r" /\ last.y = y /\ last.of = <<"add", x, y>>)
                => (/\ err = "none"
                    /\ Items(r[1]) = Items(M(x)))

C6_Witness ==
    /\ last.op = "sub" /\ last.x = "r" /\ last.y = "b" /\ last.of = <<"add", "a", "b">>
    /\ err = "none"
    /\ a.h = MaxDim /\ a.w = MaxDim
    /\ \E i \in 1 .. b.h, j \in 1 .. b.w : b.coordinates[i].items[j] # 0

\* C8: an arithmetic operator leaves its operands as they were and what it returns
\* is a new Matrix whose row lists are new as well; a later row replacement in the
\* result changes no operand, and one in an operand does not change the result.
C8_ResultsAreFresh ==
    [][/\ (ncalls' = ncalls + 1 /\ last'.op \in ArithOps)
            => (/\ a' = a /\ b' = b
                /\ err' = "none" => (r' # <<>> /\ ObjIds(r'[1]) \cap Used = {})
                /\ err' # "none" => r' = r)
       /\ (ncalls' = ncalls + 1 /\ last'.op = "set" /\ Origin # NoOrigin)
            => (/\ last'.x = "r" => (a' = a /\ b' = b)
                /\ last'.x = "a" => (r' = r /\ b' = b)
                /\ last'.x = "b" => (r' = r /\ a' = a))]_vars

C8_Witness ==
    /\ last.op = "set" /\ last.x = "r" /\ err = "none"
    /\ r # <<>>
    /\ Valid(a) /\ Valid(b)

\* C10: for every Matrix, in every state reachable by row replacements (returning
\* or raising), the stored (h, w) equals what shape recomputes from the rows.
C10_StoredShapeIsShape ==
    \A s \in {"a", "b", "r"} :
        Present(s) => <<M(s).h, M(s).w>> = shape(M(s))

(***************************************************************************)
(* The caller of the Vector interface: it holds two vectors and calls the  *)
(* operators on them; ret is what the last call returned.                  *)
(***************************************************************************)
Vectors == UNION {[1 .. n -> Vals] : n \in 0 .. MaxLen}

V(s) == IF s = "v1" THEN v1 ELSE v2

VOperator(op, x, y, res) ==
    /\ last' = [op |-> op, x |-> x, y |-> y, of |-> <<"-", "-", "-">>]
    /\ err' = res.err
    /\ ret' = res.val
    /\ UNCHANGED <<a, b, r, ncalls, v1, v2>>

VInit ==
    /\ v1 \in Vectors
    /\ v2 \in Vectors
    /\ ret = NoRet
    /\ last = NoCall
    /\ err = "none"
    /\ ncalls = 0
    /\ a = <<>>
    /\ b = <<>>
    /\ r = <<>>

VAdd == \E x \in {"v1", "v2"}, y \in {"v1", "v2"} :
    VOperator("add", x, y, vadd(V(x), V(y)))

VSub == \E x \in {"v1", "v2"}, y \in {"v1", "v2"} :
    VOperator("sub", x, y, vsub(V(x), V(y)))

VMul == \E x \in {"v1", "v2"}, y \in {"v1", "v2"} :
    VOperator("mul", x, y, vmul(V(x), V(y)))

VSMul == \E x \in {"v1", "v2"}, k \in VScalars :
    VOperator("smul", x, "-", vsmul(V(x), k))

\* v * "s": neither a Vector nor a number (lines 117-118)
VMulTypeError == \E x \in {"v1", "v2"} :
    VOperator("mulother", x, "-", VRaise("TypeError"))

VDiv == \E x \in {"v1", "v2"}, y \in {"v1", "v2"} :
    VOperator("div", x, y, vdiv(V(x), V(y)))

VSDiv == \E x \in {"v1", "v2"}, k \in VScalars :
    VOperator("sdiv", x, "-", vsdiv(V(x), k))

\* v / "s": neither a Vector nor a number (lines 154-155)
VDivTypeError == \E x \in {"v1", "v2"} :
    VOperator("divother", x, "-", VRaise("TypeError"))

VNext == VAdd \/ VSub \/ VMul \/ VSMul \/ VMulTypeError \/ VDiv \/ VSDiv \/ VDivTypeError

VSpec == VInit /\ [][VNext]_vars

(***************************************************************************)
(* Properties of the Vector interface (checked under VSpec).               *)
(***************************************************************************)
\* C7: for vectors of different lengths, multiply and divide raise ValueError and
\* return nothing; for equal lengths multiply returns the sum of pairwise products.
C7_DotProductChecksLength ==
    \A x \in {"v1", "v2"}, y \in {"v1", "v2"} :
        /\ (last.op \in {"mul", "div"} /\ last.x = x /\ last.y = y /\ Len(V(x)) # Len(V(y)))
            => (err = "ValueError" /\ ret = NoRet)
        /\ (last.op = "mul" /\ last.x = x /\ last.y = y /\ Len(V(x)) = Len(V(y)))
            => (/\ err = "none"
                /\ ret = RetNumber(Num(Sum([i \in 1 .. Len(V(x)) |-> V(x)[i] * V(y)[i]]))))

C7_Witness ==
    /\ last.op = "div" /\ last.x = "v1" /\ last.y = "v2" /\ err = "ValueError"
    /\ Len(v1) > Len(v2)
    /\ Len(v2) > 0

\* C9: add and subtract of vectors of any lengths never raise: they return a Vector
\* of the shorter length whose element i is v1[i] + v2[i] (v1[i] - v2[i]).
C9_AddSubTruncate ==
    \A x \in {"v1", "v2"}, y \in {"v1", "v2"} :
        (last.op \in {"add", "sub"} /\ last.x = x /\ last.y = y) =>
            /\ err = "none"
            /\ ret.kind = "Vector"
            /\ Len(ret.vec) = Min(Len(V(x)), Len(V(y)))
            /\ \A i \in 1 .. Len(ret.vec) :
                ret.vec[i] = Num(IF last.op = "add" THEN V(x)[i] + V(y)[i]
                                 ELSE V(x)[i] - V(y)[i])

C9_Witness ==
    /\ last.op = "sub" /\ last.x = "v1" /\ last.y = "v2" /\ err = "none"
    /\ Len(v1) < Len(v2)
    /\ Len(ret.vec) = Len(v1)
    /\ Len(v1) > 0
    /\ v1[1] # v2[1]

====
